---- MODULE Spec2Model ----
(***************************************************************************)
(* URL status checker: the per-URL check pipeline of check-urls.ts         *)
(* (checkUrl: retry / backoff loop around page.goto and detectStatus),     *)
(* the content classifier of status-detector.ts (detectStatus,             *)
(* isParkedPage, isBrokenPage) and the p-limit scheduler of main().        *)
(*                                                                         *)
(* Strings are modelled as sequences of tokens; String.includes is         *)
(* contiguous-subsequence search on tokens, so that "Timeout" and          *)
(* "timeout" are different texts, as they are for the program.             *)
(*                                                                         *)
(* Spec follows a whole batch.  DetectSpec follows one call of            *)
(* detectStatus, of status-detector.ts or of the later revision listed in *)
(* README.md (403 rule, keyword-only parked test, LLM oracle); TwiceSpec   *)
(* two such calls on one page; SubstSpec one call of                       *)
(* pageHasSubstantialContent; NormSpec normalizeUrl, called on an input    *)
(* and then on its own result; CsvSpec one call of readUrlsFromCsv;        *)
(* MainSpec main() from its first statement to the end of the process.     *)
(***************************************************************************)
EXTENDS Integers, Sequences, FiniteSets, TLC

\* ------------------------------------------------------------------ bounds
NumUrls == 2          \* number of deduplicated URLs in the batch
Concurrency == 1      \* process.argv[4], the width handed to pLimit

\* ------------------------------------------------------- program constants
MaxRetries == 3       \* checkUrl(browser, url, maxRetries = 3)

Urls == 1..NumUrls

\* --------------------------------------------------------------- strings
\* text.includes(pat): pat occurs as a contiguous run of tokens of text
Includes(text, pat) ==
  \E k \in 0..(Len(text) - Len(pat)) :
     \A j \in 1..Len(pat) : text[k + j] = pat[j]

\* decimal rendering of the numbers the program interpolates into notes
ToText(n) ==
  CASE n = 1 -> "1" [] n = 2 -> "2" [] n = 3 -> "3" [] n = 4 -> "4"
    [] n = 5 -> "5"
    [] n = 200 -> "200" [] n = 301 -> "301" [] n = 403 -> "403"
    [] n = 404 -> "404" [] n = 410 -> "410" [] n = 500 -> "500"
    [] n = 599 -> "599" [] n = 600 -> "600"
    [] OTHER -> "?"

\* --------------------------------------------------------------- inputs
\* Error messages the browser can throw (page.goto, newPage, page.close)
\* (net::ERR_CONNECTION_REFUSED reads as the tokens "net::", "ERR_", ...)
NetErr     == <<"page.goto:", "net::", "ERR_", "CONNECTION_REFUSED">>
NavTimeout == <<"Navigation", "timeout", "of", "30000", "ms", "exceeded">>
PwTimeout  == <<"page.goto:", "Timeout", "30000ms", "exceeded.">>
PageClosed == <<"Target", "page,", "context", "or", "browser", "has", "been",
                "closed">>
GotoErrors == {NetErr, NavTimeout, PwTimeout}   \* thrown by page.goto
PageErrors == {PageClosed}         \* thrown by newPage and page.close

NoError == <<>>        \* null / undefined error

\* HTTP status codes a response can carry; NoResponse is goto() === null
NoResponse == 0
HttpCodes  == {200, 403, 404, 410, 500, 599}

\* A rendered document, as the classifier can observe it:
\*   bodyLen    length of page.textContent('body').trim()
\*   phrases    phrases occurring (case-insensitively) in title or body
\*   elements   document.querySelectorAll('*').length
\*   visibleLen length of the concatenated trimmed text nodes
\*   throws     the page call that fails, if any
Phrases == {"domain for sale", "page not found"}
Docs == {d \in [bodyLen : {0, 500}, phrases : SUBSET Phrases,
                elements : {5, 20}, visibleLen : {0, 500},
                throws : {"none", "textContent"}] :
           d.visibleLen <= d.bodyLen}
NoDoc == [bodyLen |-> 0, phrases |-> {}, elements |-> 0, visibleLen |-> 0,
          throws |-> "no page"]

Statuses == {"5xx", "404", "Parked", "Broken", "ok", "Other"}

\* --------------------------------------------------- status-detector.ts
parkedIndicators ==
  {"parked", "domain for sale", "this domain may be for sale",
   "buy this domain", "domain name registration", "domain parking",
   "this domain is parked", "hosting", "coming soon", "under construction",
   "domain is available", "register this domain", "godaddy", "namecheap",
   "sedo", "dan.com", "afternic", "hugedomains", "parking page",
   "domain parking service", "this page is parked"}

hostingProviders ==
  {"cpanel", "plesk", "default page", "apache", "nginx", "welcome to",
   "it works!", "test page"}

brokenIndicators ==
  {"under construction", "coming soon", "site under maintenance",
   "maintenance mode", "temporarily unavailable", "we are working on",
   "this site is being rebuilt", "page not found", "error occurred",
   "something went wrong", "internal server error", "database error",
   "connection error", "fatal error", "parse error", "syntax error"}

\* matches of /error\s+\d{3}/i, /http\s+error/i, /server\s+error/i,
\* /application\s+error/i, as phrases
errorPatterns ==
  {"error 500", "http error", "server error", "application error"}

\* mutant: no rule for blank pages, only the keyword lists
isParkedPage_KeywordsOnly(doc) ==
  IF doc.throws = "textContent" THEN FALSE
  ELSE IF doc.phrases \cap parkedIndicators # {} THEN TRUE
  ELSE doc.phrases \cap hostingProviders # {}

\* mutant: a page that shows a broken indicator is not held to be parked
isParkedPage_YieldsToBroken(doc) ==
  IF doc.throws = "textContent" THEN FALSE
  ELSE IF doc.phrases \cap brokenIndicators # {} THEN FALSE
  ELSE IF doc.bodyLen < 100 THEN TRUE
  ELSE IF doc.phrases \cap parkedIndicators # {} THEN TRUE
  ELSE IF doc.phrases \cap hostingProviders # {} THEN TRUE
  ELSE IF doc.throws = "evaluate" THEN FALSE
  ELSE doc.visibleLen < 50

\* isParkedPage: every fault of a page call is caught and answers false
isParkedPage(doc) ==
  IF doc.throws = "textContent" THEN FALSE
  ELSE IF doc.bodyLen < 100 THEN TRUE
  ELSE IF doc.phrases \cap parkedIndicators # {} THEN TRUE
  ELSE IF doc.phrases \cap hostingProviders # {} THEN TRUE
  ELSE IF doc.throws = "evaluate" THEN FALSE
  ELSE doc.visibleLen < 50

\* isBrokenPage: every fault of a page call is caught and answers false
isBrokenPage(doc) ==
  IF doc.throws = "textContent" THEN FALSE
  ELSE IF doc.phrases \cap brokenIndicators # {} THEN TRUE
  ELSE IF doc.phrases \cap errorPatterns # {} THEN TRUE
  ELSE IF doc.throws = "evaluate" THEN FALSE
  ELSE doc.elements < 10 /\ doc.bodyLen < 200

StatusResult(st, nt) == [status |-> st, notes |-> nt]

\* mutant: the broken test runs before the parked test
detectStatus_BrokenFirst(response, doc) ==
  IF response # NoResponse /\ response >= 500 /\ response < 600
    THEN [status |-> "5xx", notes |-> <<"HTTP", ToText(response)>>]
  ELSE IF response # NoResponse /\ response >= 400 /\ response < 500
    THEN [status |-> IF response = 404 THEN "404" ELSE "Broken",
          notes |-> <<"HTTP", ToText(response)>>]
  ELSE IF isBrokenPage(doc)
    THEN [status |-> "Broken",
          notes |-> <<"Broken/under", "construction", "detected">>]
  ELSE IF isParkedPage(doc)
    THEN [status |-> "Parked", notes |-> <<"Parked", "domain", "detected">>]
  ELSE [status |-> "ok", notes |-> <<"Website", "loads", "fine">>]

\* mutant: the parked test runs before the HTTP status is looked at
detectStatus_ContentFirst(response, doc) ==
  IF isParkedPage(doc)
    THEN [status |-> "Parked", notes |-> <<"Parked", "domain", "detected">>]
  ELSE IF response # NoResponse /\ response >= 500 /\ response < 600
    THEN [status |-> "5xx", notes |-> <<"HTTP", ToText(response)>>]
  ELSE IF response # NoResponse /\ response >= 400 /\ response < 500
    THEN [status |-> IF response = 404 THEN "404" ELSE "Broken",
          notes |-> <<"HTTP", ToText(response)>>]
  ELSE [status |-> "ok", notes |-> <<"Website", "loads", "fine">>]

\* detectStatus(page, response, url).  No fault of the document reaches the
\* catch of detectStatus: waitForLoadState carries its own .catch and both
\* page tests swallow their faults, so the 'Other' branch has no input.
detectStatus(response, doc) ==
  IF response # NoResponse /\ response >= 500 /\ response < 600
    THEN StatusResult("5xx", <<"HTTP", ToText(response)>>)
  ELSE IF response # NoResponse /\ response = 404
    THEN StatusResult("404", <<"HTTP", "404">>)
  ELSE IF response # NoResponse /\ response >= 400 /\ response < 500
          /\ response # 404
    THEN StatusResult("Broken", <<"HTTP", ToText(response)>>)
  ELSE IF isParkedPage(doc)
    THEN StatusResult("Parked", <<"Parked", "domain", "detected">>)
  ELSE IF isBrokenPage(doc)
    THEN StatusResult("Broken", <<"Broken/under", "construction", "detected">>)
  ELSE IF response # NoResponse /\ response >= 200 /\ response < 300
    THEN StatusResult("ok", <<"Website", "loads", "fine">>)
  ELSE StatusResult("ok", <<"Website", "appears", "to", "load">>)

\* ------------------- README.md:169-532, the detector with the oracle
\* The README carries the listing of a later revision of the detector: a
\* 403 rule, a keyword-only parked test and an optional LLM oracle.  Its
\* definitions carry the suffix V2 where the name is taken already.

\* setTimeout(() => controller.abort(), 15000)
LlmTimeoutMs == 15000

\* What the oracle's environment can be:
\*   apiKey        process.env.OPENAI_API_KEY is set
\*   useLlmParked  process.env.USE_LLM_PARKED, "0" disables the oracle
\*   reply         what the service does with a request: it answers a text
\*                 that starts with NORMAL or PARKED or with neither, it
\*                 answers with a status that is not ok, or fetch rejects
\*   latency       milliseconds until fetch settles
Replies == {"NORMAL", "PARKED", "NEITHER", "NOT_OK", "REJECTS"}
Latencies == {1000, 20000}
LlmEnvs ==
  [apiKey : {TRUE}, useLlmParked : {"unset"}, reply : Replies,
   latency : Latencies]
  \cup [apiKey : BOOLEAN, useLlmParked : {"unset", "0"}, reply : {"NORMAL"},
        latency : {1000}]

\* mutant: the guard only looks at the key, USE_LLM_PARKED is ignored
FetchSent_IgnoresSwitch(env) == env.apiKey

\* askLLMIsParked passes its guard `!apiKey || USE_LLM_PARKED === '0'` and
\* calls fetch
FetchSent(env) == env.apiKey /\ env.useLlmParked # "0"

\* mutant: no abort timer, a late reply is read like any other
askLLMIsParked_NoAbort(env) ==
  IF ~FetchSent(env) THEN "skip"
  ELSE IF env.reply = "NORMAL" THEN "normal"
  ELSE IF env.reply = "PARKED" THEN "parked"
  ELSE "skip"

\* askLLMIsParked(pageSummary): 'parked' | 'normal' | 'skip'
askLLMIsParked(env) ==
  IF ~FetchSent(env) THEN "skip"
  ELSE IF env.latency >= LlmTimeoutMs THEN "skip"   \* abort: fetch rejects
  ELSE IF env.reply = "REJECTS" THEN "skip"         \* catch
  ELSE IF env.reply = "NOT_OK" THEN "skip"          \* !res.ok
  ELSE IF env.reply = "NORMAL" THEN "normal"
  ELSE IF env.reply = "PARKED" THEN "parked"
  ELSE "skip"

\* getPageSummaryForLLM: '' when page.evaluate fails, else the parts joined,
\* of which `Content:` is always present
getPageSummaryForLLM(doc) ==
  IF doc.throws = "evaluate" THEN <<>> ELSE <<"Content:">>

\* mutant: 'stack overflow' in the body excuses 'access denied' as well
pageHasSubstantialContent_ExcusesBoth(doc) ==
  IF doc.throws = "textContent" THEN FALSE
  ELSE IF doc.bodyLen < 400 THEN FALSE
  ELSE IF "access denied" \in doc.phrases /\ doc.bodyLen < 800
          /\ "stack overflow" \notin doc.phrases THEN FALSE
  ELSE IF "forbidden" \in doc.phrases /\ doc.bodyLen < 800
          /\ "stack overflow" \notin doc.phrases THEN FALSE
  ELSE IF doc.throws = "evaluate" THEN FALSE
  ELSE doc.elements >= 15

\* pageHasSubstantialContent: the phrases are looked for in the body text
pageHasSubstantialContent(doc) ==
  IF doc.throws = "textContent" THEN FALSE
  ELSE IF doc.bodyLen < 400 THEN FALSE
  ELSE IF "access denied" \in doc.phrases /\ doc.bodyLen < 800 THEN FALSE
  ELSE IF "forbidden" \in doc.phrases /\ doc.bodyLen < 800
          /\ "stack overflow" \notin doc.phrases THEN FALSE
  ELSE IF doc.throws = "evaluate" THEN FALSE
  ELSE doc.elements >= 15

parkedIndicatorsV2 ==
  {"parked", "domain for sale", "this domain may be for sale",
   "this domain is for sale", "domain is for sale", "buy this domain",
   "buy domain", "sell this domain", "domain name registration",
   "domain parking", "this domain is parked", "this page is parked",
   "parking page", "domain parking service", "cashparking", "parked by",
   "this domain is coming soon", "domain is available",
   "register this domain", "list your domain",
   "make an offer on this domain", "make an offer for this domain",
   "request price for this domain",
   "this domain is available for purchase", "domain available for purchase",
   "domain marketplace", "premium domain", "undeveloped",
   "put a for sale sign", "for sale sign on your domain", "godaddy",
   "namecheap", "sedo", "sedoparking", "dan.com", "afternic", "hugedomains",
   "flippa", "brandbucket", "escrow.com", "uniregistry", "epik.com"}

hostingProvidersV2 ==
  {"cpanel", "plesk", "powered by cpanel", "powered by plesk",
   "default page", "default website", "apache", "apache2", "nginx",
   "welcome to nginx", "welcome to apache", "welcome to", "it works!",
   "test page", "test page for", "ubuntu default", "centos default",
   "no web site is configured", "index of /", "directory listing"}

\* isParkedPage of the listing: keywords only, no rule for blank pages
isParkedPageV2(doc) ==
  IF doc.throws = "textContent" THEN FALSE
  ELSE \/ doc.phrases \cap parkedIndicatorsV2 # {}
       \/ doc.phrases \cap hostingProvidersV2 # {}

\* the HTTP rules of detectStatus (listing): the result they return, or
\* NoVerdict when the content tests are to decide
NoVerdict == [status |-> "none", notes |-> <<>>]
HttpRuleV2(response, doc) ==
  IF response # NoResponse /\ response >= 500 /\ response < 600
    THEN StatusResult("5xx", <<"HTTP", ToText(response)>>)
  ELSE IF response # NoResponse /\ response = 404
    THEN StatusResult("404", <<"HTTP", "404">>)
  ELSE IF response # NoResponse /\ response = 403
    THEN IF pageHasSubstantialContent(doc)
           THEN StatusResult("ok", <<"HTTP", "403", "but", "content",
                                     "loaded", "(possible", "bot", "block)">>)
           ELSE StatusResult("Broken", <<"HTTP", ToText(response)>>)
  ELSE IF response # NoResponse /\ response >= 400 /\ response < 500
          /\ response # 404
    THEN StatusResult("Broken", <<"HTTP", ToText(response)>>)
  ELSE NoVerdict

\* the oracle's verdict for a page the parked test has fired on
LlmVerdict(doc, env) ==
  IF getPageSummaryForLLM(doc) = <<>> THEN "skip" ELSE askLLMIsParked(env)

\* mutant: without a 2xx status the page is not reported ok
AfterParked_OkOnly2xx(response, doc) ==
  IF isBrokenPage(doc)
    THEN StatusResult("Broken", <<"Broken/under", "construction", "detected">>)
  ELSE IF response # NoResponse /\ response >= 200 /\ response < 300
    THEN StatusResult("ok", <<"Website", "loads", "fine">>)
  ELSE StatusResult("Other", <<"Unknown", "status">>)

\* the tail of detectStatus: broken test, 2xx rule, default
AfterParked(response, doc) ==
  IF isBrokenPage(doc)
    THEN StatusResult("Broken", <<"Broken/under", "construction", "detected">>)
  ELSE IF response # NoResponse /\ response >= 200 /\ response < 300
    THEN StatusResult("ok", <<"Website", "loads", "fine">>)
  ELSE StatusResult("ok", <<"Website", "appears", "to", "load">>)

\* detectStatus of the listing, as one function of its inputs
detectStatusV2(response, doc, env) ==
  IF HttpRuleV2(response, doc) # NoVerdict THEN HttpRuleV2(response, doc)
  ELSE IF isParkedPageV2(doc) /\ LlmVerdict(doc, env) # "normal"
    THEN StatusResult("Parked",
           IF LlmVerdict(doc, env) = "parked"
             THEN <<"Parked", "domain", "(LLM", "confirmed)">>
             ELSE <<"Website", "loads", "fine,", "Parked", "domain",
                    "detected">>)
  ELSE AfterParked(response, doc)

\* ------------------------------------------------------- check-urls.ts
VARIABLES
  pc,        \* per URL: where its limit(...) task stands
  attempt,   \* checkUrl: loop variable `attempt`
  lastError, \* checkUrl: message of `lastError`, NoError for null
  response,  \* checkUrl: status of `response`, NoResponse for null
  doc,       \* the document detectStatus read from the page of the attempt
  result,    \* checkUrl: `result` of detectStatus, NoResult before the call
  results,   \* main: the `results` array
  phase,     \* main: "running", "closed" (browser), "written", "failed"
  slept,     \* history: milliseconds of backoff the check has waited
  every,     \* history: what every attempt of the check has met so far
  cause,     \* history: the step whose outcome settled the check
  page,      \* checkUrl: `page` of the running iteration, NoPage for null
  openPages, \* the pages the browser holds open
  clock,     \* the time of day, counted in settled checks
  settledAt, \* history: the time at which the check of the URL settled
  output,    \* the rows written to the output file
  \* one call of detectStatus, followed step by step
  rev,        \* which detector runs: 1 status-detector.ts, 2 the listing
  httpStatus, \* detectStatus: response.status(), NoResponse for null
  pageDoc,    \* detectStatus: the document of `page`
  llmEnv,     \* the environment of askLLMIsParked
  dpc,        \* detectStatus: where the call stands
  outcome,    \* detectStatus: the StatusResult returned, NoResult before
  llmVerdict, \* detectStatus: `llmVerdict`, "none" while not assigned
  fetches,    \* history: requests sent to the LLM service by the call
  \* one call of normalizeUrl
  raw,        \* normalizeUrl: the argument `domain`
  normalized, \* normalizeUrl: what the call returned or threw
  \* one call of readUrlsFromCsv
  rows,           \* the Domain cells of the rows of the CSV file
  nread,          \* rows delivered to the 'data' handler so far
  urls,           \* readUrlsFromCsv: `urls`
  normalizedUrls, \* readUrlsFromCsv: `normalizedUrls`
  \* main() from its first statement to the end of the process
  mainPc,     \* main: where the run stands
  inputFile,  \* what fs.existsSync(inputFile) answered
  browser,    \* chromium.launch: "none", "open", "failed", "closed"
  scheduled,  \* checks handed to the pool
  wrote,      \* whether the output file has been written
  exitCode,   \* the exit code of the process, NoExit while it runs
  \* a second call of detectStatus on the same page
  first,      \* what the first call returned, NoFirst before it has
  \* one call of pageHasSubstantialContent, and normalizeUrl called on
  \* what it returned
  substantial,  \* what pageHasSubstantialContent answered, "unset" before
  renormalized  \* what normalizeUrl returned or threw for its own result

batchVars == <<pc, attempt, lastError, response, doc, result, results, phase,
               slept, every, cause, page, openPages, clock, settledAt,
               output>>
detectVars == <<rev, httpStatus, pageDoc, llmEnv, dpc, outcome, llmVerdict,
                fetches>>
normVars == <<raw, normalized>>
csvVars == <<rows, nread, urls, normalizedUrls>>
mainVars == <<mainPc, inputFile, browser, scheduled, wrote, exitCode>>
pureVars == <<substantial, renormalized>>
vars ==
  <<batchVars, detectVars, normVars, csvVars, mainVars, first, pureVars>>

NoResult == StatusResult("none", <<>>)

CheckResult(url, st, nt, err) ==
  [domain |-> url, status |-> st, notes |-> nt, error |-> err]

\* errorMessage.includes('timeout') || includes('net::') ||
\* includes('Navigation timeout') || includes('ERR_')
IsRetryable(msg) ==
  \/ Includes(msg, <<"timeout">>)
  \/ Includes(msg, <<"net::">>)
  \/ Includes(msg, <<"Navigation", "timeout">>)
  \/ Includes(msg, <<"ERR_">>)

\* mutant: the delay grows by a second with each attempt
Pow2_Linear(n) == n + 1

\* Math.pow(2, n) for the exponents the loop can ask for
Pow2(n) == IF n <= 0 THEN 1 ELSE IF n = 1 THEN 2 ELSE IF n = 2 THEN 4
           ELSE IF n = 3 THEN 8 ELSE 16

\* mutant: the exponent is the attempt itself
BackoffDelay_OffByOne(a) == Pow2(a) * 1000

\* const delay = Math.pow(2, attempt - 1) * 1000
BackoffDelay(a) == Pow2(a - 1) * 1000

\* status >= 500 && status < 600
Is5xx(status) == status >= 500 /\ status < 600

\* mutant: the page is closed after the try block
InTry_CloseOutside(step) == step \in {"backoff", "newPage", "goto"}

\* the steps of an attempt that stand inside its try block
InTry(step) == step \in {"backoff", "newPage", "goto", "close"}

\* history: the kind of outcome every attempt so far has met
Fold(old, kind) == IF old = "all" \/ old = kind THEN kind ELSE "mixed"

\* mutant: a check that waits in a backoff delay gives its slot back
InFlight_BackoffFrees ==
  {i \in Urls : pc[i] \notin {"queued", "done", "rejected", "backoff"}}

\* limit(...): tasks in flight, i.e. started and not yet settled
InFlight == {i \in Urls : pc[i] \notin {"queued", "done", "rejected"}}

\* `let page: Page | null = null`
NoPage == <<>>

\* the page browser.newPage() answers in the running iteration of URL i
PageOf(i) == <<i, attempt[i]>>

\* await page.close() in the try block, and the end of the iteration.  A
\* close that rejects does so because the page is gone already.
ClosePage(i) ==
  /\ openPages' = openPages \ {page[i]}
  /\ page' = [page EXCEPT ![i] = NoPage]

\* mutant: the catch block does not close the page
CatchClose_Skips(i) ==
  /\ page' = [page EXCEPT ![i] = NoPage]
  /\ UNCHANGED openPages

\* catch: if (page) { try { await page.close() } catch { } }
CatchClose(i) ==
  /\ openPages' = IF page[i] # NoPage THEN openPages \ {page[i]}
                  ELSE openPages
  /\ page' = [page EXCEPT ![i] = NoPage]

\* the clock reads one more with every check that settles, and the check
\* that settles is stamped with it
Stamp(i) ==
  IF pc'[i] = "done" /\ pc[i] # "done"
    THEN /\ clock' = clock + 1
         /\ settledAt' = [settledAt EXCEPT ![i] = clock + 1]
    ELSE UNCHANGED <<clock, settledAt>>

\* the batch as main() starts it
BatchStart ==
  /\ pc = [i \in Urls |-> "queued"]
  /\ attempt = [i \in Urls |-> 0]
  /\ lastError = [i \in Urls |-> NoError]
  /\ response = [i \in Urls |-> NoResponse]
  /\ doc = [i \in Urls |-> NoDoc]
  /\ result = [i \in Urls |-> NoResult]
  /\ results = <<>>
  /\ phase = "running"
  /\ slept = [i \in Urls |-> 0]
  /\ every = [i \in Urls |-> "all"]
  /\ cause = [i \in Urls |-> "none"]
  /\ page = [i \in Urls |-> NoPage]
  /\ openPages = {}
  /\ clock = 0
  /\ settledAt = [i \in Urls |-> 0]
  /\ output = <<>>

\* no call of detectStatus is being followed
DetectIdle ==
  /\ rev = 1
  /\ httpStatus = NoResponse
  /\ pageDoc = NoDoc
  /\ llmEnv = [apiKey |-> FALSE, useLlmParked |-> "unset",
               reply |-> "NORMAL", latency |-> 1000]
  /\ dpc = "idle"
  /\ outcome = NoResult
  /\ llmVerdict = "none"
  /\ fetches = 0

\* no call of normalizeUrl is being followed
NormIdle == raw = <<>> /\ normalized = [kind |-> "idle", value |-> <<>>]

\* no call of readUrlsFromCsv is being followed
CsvIdle == rows = <<>> /\ nread = 0 /\ urls = <<>> /\ normalizedUrls = {}

\* process.exit has not been called
NoExit == -1

\* main() is not being followed
MainIdle ==
  /\ mainPc = "idle"
  /\ inputFile = "unchecked"
  /\ browser = "none"
  /\ scheduled = 0
  /\ wrote = FALSE
  /\ exitCode = NoExit

\* detectStatus has not returned from a first call
NoFirst == [outcome |-> NoResult, verdict |-> "unset"]

\* no second call of detectStatus is being followed
TwiceIdle == first = NoFirst

\* no call of pageHasSubstantialContent and no second call of normalizeUrl
\* is being followed
PureIdle ==
  /\ substantial = "unset"
  /\ renormalized = [kind |-> "idle", value |-> <<>>]

Init ==
  /\ BatchStart /\ DetectIdle /\ NormIdle /\ CsvIdle /\ MainIdle /\ TwiceIdle
  /\ PureIdle

\* mutant: the tasks are started without the limiter
CanAdmit_NoLimit(i) ==
  /\ pc[i] = "queued"
  /\ \A j \in Urls : j < i => pc[j] # "queued"

\* mutant: the pool fills its slots once and does not refill them when a
\* check settles
CanAdmit_NoRefill(i) ==
  /\ pc[i] = "queued"
  /\ \A j \in Urls : j < i => pc[j] # "queued"
  /\ Cardinality(InFlight) < Concurrency
  /\ Len(results) = 0

\* p-limit admits the queued tasks in order while fewer than `concurrency`
\* are running
CanAdmit(i) ==
  /\ pc[i] = "queued"
  /\ \A j \in Urls : j < i => pc[j] # "queued"
  /\ Cardinality(InFlight) < Concurrency

\* the task of URL i starts: checkUrl enters its loop with attempt = 0
Admit(i) ==
  /\ phase = "running"
  /\ CanAdmit(i)
  /\ pc' = [pc EXCEPT ![i] = "newPage"]
  /\ UNCHANGED <<attempt, lastError, response, doc, result, results, phase,
                 slept, every, cause>>
  /\ UNCHANGED <<page, openPages, clock, settledAt, output>>
  /\ UNCHANGED <<detectVars, normVars, csvVars, mainVars, first, pureVars>>

\* mutant: a check that ends in Other is not recorded
Settle_DropsOther(i, res, att, step) ==
  /\ pc' = [pc EXCEPT ![i] = "done"]
  /\ results' = IF res.status = "Other" THEN results
                ELSE Append(results, res)
  /\ attempt' = [attempt EXCEPT ![i] = att]
  /\ lastError' = [lastError EXCEPT ![i] = NoError]
  /\ response' = [response EXCEPT ![i] = NoResponse]
  /\ doc' = [doc EXCEPT ![i] = NoDoc]
  /\ result' = [result EXCEPT ![i] = NoResult]
  /\ cause' = [cause EXCEPT ![i] = step]
  /\ UNCHANGED phase

\* mutant: the checks share one result object, so that a check reports the
\* status of the check that settled before it
Settle_SharedResult(i, res, att, step) ==
  /\ pc' = [pc EXCEPT ![i] = "done"]
  /\ results' = Append(results,
                   IF results = <<>> THEN res
                   ELSE [res EXCEPT !.status = results[Len(results)].status])
  /\ attempt' = [attempt EXCEPT ![i] = att]
  /\ lastError' = [lastError EXCEPT ![i] = NoError]
  /\ response' = [response EXCEPT ![i] = NoResponse]
  /\ doc' = [doc EXCEPT ![i] = NoDoc]
  /\ result' = [result EXCEPT ![i] = NoResult]
  /\ cause' = [cause EXCEPT ![i] = step]
  /\ UNCHANGED phase

\* mutant: the result is put at the head of the array
Settle_Unshifts(i, res, att, step) ==
  /\ pc' = [pc EXCEPT ![i] = "done"]
  /\ results' = <<res>> \o results
  /\ attempt' = [attempt EXCEPT ![i] = att]
  /\ lastError' = [lastError EXCEPT ![i] = NoError]
  /\ response' = [response EXCEPT ![i] = NoResponse]
  /\ doc' = [doc EXCEPT ![i] = NoDoc]
  /\ result' = [result EXCEPT ![i] = NoResult]
  /\ cause' = [cause EXCEPT ![i] = step]
  /\ UNCHANGED phase

\* checkUrl returns res with the loop variable at att: the task pushes
\* res to results and settles
Settle(i, res, att, step) ==
  /\ pc' = [pc EXCEPT ![i] = "done"]
  /\ results' = Append(results, res)
  /\ attempt' = [attempt EXCEPT ![i] = att]
  /\ lastError' = [lastError EXCEPT ![i] = NoError]
  /\ response' = [response EXCEPT ![i] = NoResponse]
  /\ doc' = [doc EXCEPT ![i] = NoDoc]
  /\ result' = [result EXCEPT ![i] = NoResult]
  /\ cause' = [cause EXCEPT ![i] = step]
  /\ UNCHANGED phase

\* the return after the loop
Fallback(i, err) ==
  CheckResult(i, "5xx",
    <<"Failed", "after", ToText(MaxRetries + 1), "attempts:">>
      \o (IF err = NoError THEN <<"Unknown", "error">> ELSE err),
    err)

\* the loop goes round with lastError = err: the next iteration, or, past
\* the last one, the return after the loop
Continue(i, err) ==
  IF attempt[i] + 1 <= MaxRetries
    THEN /\ pc' = [pc EXCEPT ![i] = "backoff"]
         /\ attempt' = [attempt EXCEPT ![i] = attempt[i] + 1]
         /\ lastError' = [lastError EXCEPT ![i] = err]
         /\ response' = [response EXCEPT ![i] = NoResponse]
         /\ doc' = [doc EXCEPT ![i] = NoDoc]
         /\ result' = [result EXCEPT ![i] = NoResult]
         /\ UNCHANGED <<results, phase, cause>>
    ELSE Settle(i, Fallback(i, err), attempt[i] + 1, "fallback")

\* an error leaves checkUrl: its promise rejects, Promise.all rejects and
\* main().catch ends the process
Reject(i) ==
  /\ pc' = [pc EXCEPT ![i] = "rejected"]
  /\ phase' = "failed"
  /\ UNCHANGED <<attempt, lastError, response, doc, result, results, cause>>

\* the verdict of the catch block on the last attempt
CatchResult(i, msg) ==
  IF IsRetryable(msg)
    THEN CheckResult(i, "5xx",
           <<"Network", "error/timeout", "after", ToText(attempt[i] + 1),
             "attempts:">> \o msg, msg)
    ELSE CheckResult(i, "Other", <<"Error:">> \o msg, msg)

\* mutant: the catch block has no return for the last attempt
Catch_NoLastReturn(i, step, msg) == Continue(i, msg)

\* mutant: the last attempt does not settle on an error but runs again
Catch_RunsAgain(i, step, msg) ==
  IF attempt[i] < MaxRetries
    THEN Continue(i, msg)
    ELSE /\ pc' = [pc EXCEPT ![i] = "newPage"]
         /\ lastError' = [lastError EXCEPT ![i] = msg]
         /\ response' = [response EXCEPT ![i] = NoResponse]
         /\ doc' = [doc EXCEPT ![i] = NoDoc]
         /\ result' = [result EXCEPT ![i] = NoResult]
         /\ UNCHANGED <<attempt, results, phase, cause>>

\* catch (error): the page, if any, is closed and a failing close ignored;
\* a retryable message with retries left continues, the last attempt
\* settles, and any other error falls through to the next iteration
Catch(i, step, msg) ==
  IF IsRetryable(msg) /\ attempt[i] < MaxRetries
    THEN Continue(i, msg)
  ELSE IF attempt[i] = MaxRetries
    THEN Settle(i, CatchResult(i, msg), attempt[i], step)
  ELSE Continue(i, msg)

\* `step` throws msg: into the catch block if the step stands in the try
Throw(i, step, msg) ==
  IF InTry(step) THEN Catch(i, step, msg) ELSE Reject(i)

\* await new Promise(resolve => setTimeout(resolve, delay)), attempt > 0
Backoff(i) ==
  /\ pc[i] = "backoff"
  /\ pc' = [pc EXCEPT ![i] = "newPage"]
  /\ slept' = [slept EXCEPT ![i] = slept[i] + BackoffDelay(attempt[i])]
  /\ UNCHANGED <<attempt, lastError, response, doc, result, results, phase,
                 every, cause>>
  /\ UNCHANGED <<page, openPages, clock, settledAt, output>>
  /\ UNCHANGED <<detectVars, normVars, csvVars, mainVars, first, pureVars>>

\* page = await browser.newPage(): a page, or a thrown error
NewPage(i) ==
  /\ pc[i] = "newPage"
  /\ \/ /\ pc' = [pc EXCEPT ![i] = "goto"]
        /\ page' = [page EXCEPT ![i] = PageOf(i)]
        /\ openPages' = openPages \cup {PageOf(i)}
        /\ UNCHANGED <<attempt, lastError, response, doc, result, results,
                       phase, every, cause>>
     \/ \E msg \in PageErrors :
          /\ every' = [every EXCEPT ![i] = Fold(every[i], "mixed")]
          /\ Throw(i, "newPage", msg)
          /\ CatchClose(i)
  /\ Stamp(i)
  /\ UNCHANGED <<slept, output>>
  /\ UNCHANGED <<detectVars, normVars, csvVars, mainVars, first, pureVars>>

\* const response = await page.goto(url, ...) and the synchronous code that
\* follows it up to the next await: goto throws, or answers null or a
\* response; a 5xx response with retries left closes the page and
\* continues (the close can throw into the catch block), anything else
\* goes on to detectStatus
Goto(i) ==
  /\ pc[i] = "goto"
  /\ \/ \E msg \in GotoErrors :
          /\ every' = [every EXCEPT ![i] =
                         Fold(every[i], IF IsRetryable(msg) THEN "nav"
                                        ELSE "mixed")]
          /\ Throw(i, "goto", msg)
          /\ CatchClose(i)
     \/ \E status \in HttpCodes :
          /\ Is5xx(status) /\ attempt[i] < MaxRetries
          /\ every' = [every EXCEPT ![i] = Fold(every[i], "5xx")]
          /\ \/ Continue(i, <<"HTTP", ToText(status)>>) /\ ClosePage(i)
             \/ \E msg \in PageErrors :
                  Throw(i, "close", msg) /\ CatchClose(i)
     \/ \E status \in HttpCodes \cup {NoResponse} :
          /\ ~(status # NoResponse /\ Is5xx(status)
                /\ attempt[i] < MaxRetries)
          /\ every' = [every EXCEPT ![i] =
                         Fold(every[i],
                              IF status # NoResponse /\ Is5xx(status)
                                THEN "5xx" ELSE "mixed")]
          /\ pc' = [pc EXCEPT ![i] = "loaded"]
          /\ response' = [response EXCEPT ![i] = status]
          /\ UNCHANGED <<attempt, lastError, doc, result, results, phase,
                         cause, page, openPages>>
  /\ Stamp(i)
  /\ UNCHANGED <<slept, output>>
  /\ UNCHANGED <<detectVars, normVars, csvVars, mainVars, first, pureVars>>

\* const result = await detectStatus(page, response, url)
Detect(i) ==
  /\ pc[i] = "loaded"
  /\ \E d \in Docs :
       /\ doc' = [doc EXCEPT ![i] = d]
       /\ result' = [result EXCEPT ![i] = detectStatus(response[i], d)]
  /\ pc' = [pc EXCEPT ![i] = "detected"]
  /\ UNCHANGED <<attempt, lastError, response, results, phase, slept, every,
                 cause>>
  /\ UNCHANGED <<page, openPages, clock, settledAt, output>>
  /\ UNCHANGED <<detectVars, normVars, csvVars, mainVars, first, pureVars>>

\* what checkUrl returns once detectStatus has answered and the page is
\* closed: the 5xx verdict of the last attempt, or the detected verdict
Verdict(i) ==
  IF response[i] # NoResponse /\ response[i] # 404 /\ Is5xx(response[i])
    THEN CheckResult(i, "5xx",
           <<"HTTP", ToText(response[i]), "after", ToText(attempt[i] + 1),
             "attempts">>, NoError)
    ELSE CheckResult(i, result[i].status,
           IF result[i].notes = <<>>
             THEN <<"No", "HTTP", "response", "received">>
             ELSE result[i].notes,
           NoError)

\* await page.close() after detectStatus, then return; a throwing close is
\* caught by the catch block of the attempt
Close(i) ==
  /\ pc[i] = "detected"
  /\ \/ Settle(i, Verdict(i), attempt[i], "verdict") /\ ClosePage(i)
     \/ \E msg \in PageErrors : Throw(i, "close", msg) /\ CatchClose(i)
  /\ Stamp(i)
  /\ UNCHANGED <<slept, every, output>>
  /\ UNCHANGED <<detectVars, normVars, csvVars, mainVars, first, pureVars>>

\* mutant: the browser is closed without awaiting the checks
CloseBrowser_NoAwait ==
  /\ phase = "running"
  /\ phase' = "closed"
  /\ openPages' = {}
  /\ UNCHANGED <<pc, attempt, lastError, response, doc, result, results,
                 slept, every, cause, page, clock, settledAt, output>>
  /\ UNCHANGED <<detectVars, normVars, csvVars, mainVars, first, pureVars>>

\* await Promise.all(promises); await browser.close()
CloseBrowser ==
  /\ phase = "running"
  /\ \A i \in Urls : pc[i] = "done"
  /\ phase' = "closed"
  /\ openPages' = {}
  /\ UNCHANGED <<pc, attempt, lastError, response, doc, result, results,
                 slept, every, cause, page, clock, settledAt, output>>
  /\ UNCHANGED <<detectVars, normVars, csvVars, mainVars, first, pureVars>>

\* writeResultsToCsv: the row of one result, Timestamp being
\* new Date().toISOString() at the time of writing
OutputRow(res, time) ==
  [Domain |-> res.domain, Status |-> res.status, Timestamp |-> time,
   Notes |-> IF res.notes # <<>> THEN res.notes ELSE res.error]

\* await writeResultsToCsv(results, outputFile)
WriteCsv ==
  /\ phase = "closed"
  /\ phase' = "written"
  /\ output' = [k \in 1..Len(results) |-> OutputRow(results[k], clock)]
  /\ UNCHANGED <<pc, attempt, lastError, response, doc, result, results,
                 slept, every, cause, page, openPages, clock, settledAt>>
  /\ UNCHANGED <<detectVars, normVars, csvVars, mainVars, first, pureVars>>

Next ==
  \/ \E i \in Urls : Admit(i)
  \/ \E i \in Urls : Backoff(i)
  \/ \E i \in Urls : NewPage(i)
  \/ \E i \in Urls : Goto(i)
  \/ \E i \in Urls : Detect(i)
  \/ \E i \in Urls : Close(i)
  \/ CloseBrowser
  \/ WriteCsv

Spec == Init /\ [][Next]_vars

\* every step of a running check returns or fails, and the event loop runs
\* every task that is ready
FairSpec ==
  /\ Spec
  /\ \A i \in Urls :
       WF_vars(Admit(i) \/ Backoff(i) \/ NewPage(i) \/ Goto(i) \/ Detect(i)
               \/ Close(i))
  /\ WF_vars(CloseBrowser \/ WriteCsv)

\* ------------------------------------------- one call of detectStatus
\* The inputs of a call: a status code or no response, a document, the
\* oracle's environment, and the detector that is called.
DetectCodes == {200, 301, 403, 404, 410, 500, 599, 600}
DetectPhrases == {"domain for sale", "page not found", "forbidden"}
DetectDocs ==
  {d \in [bodyLen : {0, 150, 500, 2000}, phrases : SUBSET DetectPhrases,
          elements : {5, 12, 20}, visibleLen : {0, 150, 500, 2000},
          throws : {"none", "textContent", "evaluate"}] :
     d.visibleLen \in {0, d.bodyLen}}

DetectInit ==
  /\ BatchStart /\ NormIdle /\ CsvIdle /\ MainIdle /\ TwiceIdle
  /\ PureIdle
  /\ rev \in {1, 2}
  /\ httpStatus \in DetectCodes \cup {NoResponse}
  /\ pageDoc \in DetectDocs
  /\ llmEnv \in LlmEnvs
  /\ rev = 1 => llmEnv = [apiKey |-> FALSE, useLlmParked |-> "unset",
                          reply |-> "NORMAL", latency |-> 1000]
  /\ dpc = "start"
  /\ outcome = NoResult
  /\ llmVerdict = "none"
  /\ fetches = 0

\* detectStatus returns
Return(res) ==
  /\ dpc' = "returned"
  /\ outcome' = res
  /\ UNCHANGED <<rev, httpStatus, pageDoc, llmEnv, batchVars, normVars,
                 csvVars, mainVars, first, pureVars>>

\* detectStatus goes on to the next test
GoOn(step) ==
  /\ dpc' = step
  /\ UNCHANGED <<rev, httpStatus, pageDoc, llmEnv, outcome, batchVars,
                 normVars, csvVars, mainVars, first, pureVars>>

\* status-detector.ts: detectStatus(page, response, url), the whole call
DetectV1 ==
  /\ dpc = "start" /\ rev = 1
  /\ Return(detectStatus(httpStatus, pageDoc))
  /\ UNCHANGED <<llmVerdict, fetches>>

\* listing: `if (response) { ... }`, the rules on the HTTP status
HttpRule ==
  /\ dpc = "start" /\ rev = 2
  /\ IF HttpRuleV2(httpStatus, pageDoc) # NoVerdict
       THEN Return(HttpRuleV2(httpStatus, pageDoc))
       ELSE GoOn("parkedTest")
  /\ UNCHANGED <<llmVerdict, fetches>>

\* mutant: the oracle is asked about every page that loaded
ParkedTest_AlwaysAsks ==
  /\ dpc = "parkedTest"
  /\ GoOn("oracle")
  /\ UNCHANGED <<llmVerdict, fetches>>

\* listing: const parked = await isParkedPage(page)
ParkedTest ==
  /\ dpc = "parkedTest"
  /\ GoOn(IF isParkedPageV2(pageDoc) THEN "oracle" ELSE "brokenTest")
  /\ UNCHANGED <<llmVerdict, fetches>>

\* mutant: the note tells a failed request to the oracle from an answer
\* that could not be used
Oracle_NotesFailure ==
  /\ dpc = "oracle"
  /\ llmVerdict' = LlmVerdict(pageDoc, llmEnv)
  /\ fetches' = IF getPageSummaryForLLM(pageDoc) # <<>> /\ FetchSent(llmEnv)
                  THEN fetches + 1 ELSE fetches
  /\ IF llmVerdict' = "normal"
       THEN GoOn("brokenTest")
       ELSE Return(StatusResult("Parked",
              IF llmVerdict' = "parked"
                THEN <<"Parked", "domain", "(LLM", "confirmed)">>
                ELSE IF llmEnv.reply = "REJECTS"
                  THEN <<"Parked", "domain", "(LLM", "unavailable)">>
                  ELSE <<"Website", "loads", "fine,", "Parked", "domain",
                         "detected">>))

\* listing: summary = await getPageSummaryForLLM(page); llmVerdict =
\* summary ? await askLLMIsParked(summary) : 'skip'; Parked unless 'normal'
Oracle ==
  /\ dpc = "oracle"
  /\ llmVerdict' = LlmVerdict(pageDoc, llmEnv)
  /\ fetches' = IF getPageSummaryForLLM(pageDoc) # <<>> /\ FetchSent(llmEnv)
                  THEN fetches + 1 ELSE fetches
  /\ IF llmVerdict' = "normal"
       THEN GoOn("brokenTest")
       ELSE Return(StatusResult("Parked",
              IF llmVerdict' = "parked"
                THEN <<"Parked", "domain", "(LLM", "confirmed)">>
                ELSE <<"Website", "loads", "fine,", "Parked", "domain",
                       "detected">>))

\* listing: isBrokenPage, then the 2xx rule and the default
BrokenTest ==
  /\ dpc = "brokenTest"
  /\ Return(AfterParked(httpStatus, pageDoc))
  /\ UNCHANGED <<llmVerdict, fetches>>

DetectNext == DetectV1 \/ HttpRule \/ ParkedTest \/ Oracle \/ BrokenTest

DetectSpec == DetectInit /\ [][DetectNext]_vars

\* the listing's steps compose to its detectStatus
DetectStepsAgree ==
  (dpc = "returned" /\ rev = 2) =>
    outcome = detectStatusV2(httpStatus, pageDoc, llmEnv)

\* ------------------------------------- two calls of detectStatus, one page
\* detectStatus is called again on the page it has classified: the status
\* code and the document are the same, the oracle's environment is drawn
\* anew
Again ==
  /\ dpc = "returned"
  /\ first = NoFirst
  /\ first' = [outcome |-> outcome, verdict |-> llmVerdict]
  /\ dpc' = "start"
  /\ outcome' = NoResult
  /\ llmVerdict' = "none"
  /\ fetches' = 0
  /\ llmEnv' \in LlmEnvs
  /\ rev = 1 => llmEnv' = llmEnv
  /\ UNCHANGED <<rev, httpStatus, pageDoc, batchVars, normVars, csvVars,
                 mainVars, pureVars>>

TwiceNext == DetectNext \/ Again

TwiceSpec == DetectInit /\ [][TwiceNext]_vars

\* --------------------------------- one call of pageHasSubstantialContent
\* The pages the test is called on: body lengths on both sides of 400 and
\* of 800, element counts on both sides of 15
SubstPhrases == {"forbidden", "access denied", "stack overflow"}
SubstDocs ==
  {d \in [bodyLen : {0, 399, 400, 799, 800}, phrases : SUBSET SubstPhrases,
          elements : {14, 15}, visibleLen : {0, 399, 400, 799, 800},
          throws : {"none", "textContent", "evaluate"}] :
     d.visibleLen = d.bodyLen}

\* detectStatus calls the test on the page of a 403 response
SubstInit ==
  /\ BatchStart /\ NormIdle /\ CsvIdle /\ MainIdle /\ TwiceIdle
  /\ rev = 2
  /\ httpStatus = 403
  /\ pageDoc \in SubstDocs
  /\ llmEnv = [apiKey |-> FALSE, useLlmParked |-> "unset",
               reply |-> "NORMAL", latency |-> 1000]
  /\ dpc = "idle"
  /\ outcome = NoResult
  /\ llmVerdict = "none"
  /\ fetches = 0
  /\ substantial = "unset"
  /\ renormalized = [kind |-> "idle", value |-> <<>>]

\* const substantial = await pageHasSubstantialContent(page)
CallSubstantial ==
  /\ substantial = "unset"
  /\ substantial' = IF pageHasSubstantialContent(pageDoc) THEN "true"
                    ELSE "false"
  /\ UNCHANGED <<renormalized, batchVars, detectVars, normVars, csvVars,
                 mainVars, first>>

SubstNext == CallSubstantial

SubstSpec == SubstInit /\ [][SubstNext]_vars

\* ---------------------------------------------- one call of normalizeUrl
\* A domain string is a sequence of characters; a host name is carried as
\* one token, since no rule of normalizeUrl looks inside it.
Chars(w) ==
  CASE w = "http://"  -> <<"h", "t", "t", "p", ":", "/", "/">>
    [] w = "https://" -> <<"h", "t", "t", "p", "s", ":", "/", "/">>
    [] w = "HTTP://"  -> <<"H", "T", "T", "P", ":", "/", "/">>
    [] w = "Https://" -> <<"H", "t", "t", "p", "s", ":", "/", "/">>
    [] w = "http:/"   -> <<"h", "t", "t", "p", ":", "/">>
    [] w = "ftp://"   -> <<"f", "t", "p", ":", "/", "/">>
    [] OTHER          -> <<>>

\* String.prototype.toLowerCase on one character (or host token)
Lower(c) ==
  CASE c = "H" -> "h" [] c = "T" -> "t" [] c = "P" -> "p" [] c = "S" -> "s"
    [] c = "EXAMPLE.com" -> "example.com"
    [] OTHER -> c

\* the string without its leading characters of the class `cls`
RECURSIVE DropHead(_, _)
DropHead(str, cls) ==
  IF str # <<>> /\ Head(str) \in cls THEN DropHead(Tail(str), cls) ELSE str

\* the string without its trailing characters of the class `cls`
RECURSIVE DropTail(_, _)
DropTail(str, cls) ==
  IF str # <<>> /\ str[Len(str)] \in cls
    THEN DropTail(SubSeq(str, 1, Len(str) - 1), cls)
    ELSE str

\* String.prototype.trim
Trim(str) == DropTail(DropHead(str, {" ", "\t"}), {" ", "\t"})

\* .replace(/^\/+|\/+$/g, '')
StripSlashes(str) == DropTail(DropHead(str, {"/"}), {"/"})

\* str.startsWith(prefix), case as written
StartsWith(str, prefix) ==
  Len(str) >= Len(prefix) /\ SubSeq(str, 1, Len(prefix)) = prefix

\* /^https?:\/\//i.test(str)
HasScheme(str) ==
  LET low == [k \in 1..Len(str) |-> Lower(str[k])]
  IN  StartsWith(low, Chars("http://")) \/ StartsWith(low, Chars("https://"))

Returns(v) == [kind |-> "returns", value |-> v]
Throws(msg) == [kind |-> "throws", value |-> msg]

\* mutant: the emptiness test looks at the argument before it is trimmed
normalizeUrl_TestsUntrimmed(domain) ==
  IF domain = <<>> THEN Throws(<<"Empty domain">>)
  ELSE LET bare == StripSlashes(Trim(domain))
       IN  Returns(IF HasScheme(bare) THEN bare
                   ELSE Chars("https://") \o bare)

\* normalizeUrl(domain)
normalizeUrl(domain) ==
  IF Trim(domain) = <<>> THEN Throws(<<"Empty domain">>)
  ELSE LET bare == StripSlashes(Trim(Trim(domain)))
       IN  Returns(IF HasScheme(bare) THEN bare
                   ELSE Chars("https://") \o bare)

\* the arguments of a call: blanks or slashes, a scheme or none, a host or
\* none, trailing slashes or blanks
Leads == {<<>>, <<" ">>, <<"/">>, <<" ", "/">>}
Schemes == {<<>>, Chars("http://"), Chars("https://"), Chars("HTTP://"),
            Chars("Https://"), Chars("http:/"), Chars("ftp://")}
Hosts == {<<>>, <<"example.com">>, <<"EXAMPLE.com">>}
Trails == {<<>>, <<"/">>, <<" ">>, <<"/", " ">>, <<"/", "/">>}
RawInputs ==
  {l \o s \o h \o t : l \in Leads, s \in Schemes, h \in Hosts, t \in Trails}

NormInit ==
  /\ BatchStart /\ DetectIdle /\ CsvIdle /\ MainIdle /\ TwiceIdle
  /\ PureIdle
  /\ raw \in RawInputs
  /\ normalized = [kind |-> "idle", value |-> <<>>]

\* the call returns or throws
Normalize ==
  /\ normalized.kind = "idle"
  /\ normalized' = normalizeUrl(raw)
  /\ UNCHANGED <<raw, batchVars, detectVars, csvVars, mainVars,
                 first, pureVars>>

\* normalizeUrl is called on the string the first call returned
Renormalize ==
  /\ normalized.kind = "returns"
  /\ renormalized.kind = "idle"
  /\ renormalized' = normalizeUrl(normalized.value)
  /\ UNCHANGED <<substantial, batchVars, detectVars, normVars, csvVars,
                 mainVars, first>>

NormNext == Normalize \/ Renormalize

NormSpec == NormInit /\ [][NormNext]_vars

\* ------------------------------------------ one call of readUrlsFromCsv
MaxRows == 3   \* rows of the input file

\* what the Domain (domain, URL, url) cell of a row can hold
Cells ==
  {<<"example.com">>,
   Chars("https://") \o <<"example.com">>,
   <<"EXAMPLE.com", "/">>,
   <<"example.com", "/">>,
   <<" ">>}

RECURSIVE SeqsUpTo(_, _)
SeqsUpTo(S, n) ==
  IF n = 0 THEN {<<>>}
  ELSE SeqsUpTo(S, n - 1)
       \cup {Append(q, x) : q \in {p \in SeqsUpTo(S, n - 1) : Len(p) = n - 1},
                            x \in S}

CsvInit ==
  /\ BatchStart /\ DetectIdle /\ NormIdle /\ MainIdle /\ TwiceIdle
  /\ PureIdle
  /\ rows \in SeqsUpTo(Cells, MaxRows)
  /\ nread = 0
  /\ urls = <<>>
  /\ normalizedUrls = {}

\* mutant: the set of seen URLs holds the cells as read, not normalized
ReadRow_KeysRaw ==
  /\ nread < Len(rows)
  /\ nread' = nread + 1
  /\ LET domain == rows[nread + 1]
     IN  IF Trim(domain) # <<>> /\ domain \notin normalizedUrls
           THEN /\ normalizedUrls' = normalizedUrls \cup {domain}
                /\ urls' = Append(urls, normalizeUrl(domain).value)
           ELSE UNCHANGED <<urls, normalizedUrls>>
  /\ UNCHANGED <<rows, batchVars, detectVars, normVars, mainVars,
                 first, pureVars>>

\* .on('data', (row) => { ... }): a row with a non-blank cell is
\* normalized and pushed unless its normalized form was seen before
ReadRow ==
  /\ nread < Len(rows)
  /\ nread' = nread + 1
  /\ LET domain == rows[nread + 1]
     IN  IF Trim(domain) # <<>> /\ normalizeUrl(domain).kind = "returns"
            /\ normalizeUrl(domain).value \notin normalizedUrls
           THEN /\ normalizedUrls' =
                     normalizedUrls \cup {normalizeUrl(domain).value}
                /\ urls' = Append(urls, normalizeUrl(domain).value)
           ELSE UNCHANGED <<urls, normalizedUrls>>
  /\ UNCHANGED <<rows, batchVars, detectVars, normVars, mainVars,
                 first, pureVars>>

CsvNext == ReadRow

CsvSpec == CsvInit /\ [][CsvNext]_vars

\* ------------------------------------------------- main(), start to end
\* The run from the first statement of main() to the end of the process.
\* The input is read row by row as above; the batch, followed check by
\* check under Spec, is here the three steps that schedule it, await it
\* and follow it.
MainInit ==
  /\ BatchStart /\ DetectIdle /\ NormIdle /\ TwiceIdle
  /\ PureIdle
  /\ rows \in SeqsUpTo(Cells, MaxRows)
  /\ nread = 0
  /\ urls = <<>>
  /\ normalizedUrls = {}
  /\ mainPc = "start"
  /\ inputFile = "unchecked"
  /\ browser = "none"
  /\ scheduled = 0
  /\ wrote = FALSE
  /\ exitCode = NoExit

\* process.exit(code)
Exit(code) ==
  /\ mainPc' = "exited"
  /\ exitCode' = code

\* if (!fs.existsSync(inputFile)) { ...; process.exit(1) }
CheckFile ==
  /\ mainPc = "start"
  /\ \/ /\ inputFile' = "missing"
        /\ Exit(1)
     \/ /\ inputFile' = "present"
        /\ mainPc' = "reading"
        /\ UNCHANGED exitCode
  /\ UNCHANGED <<browser, scheduled, wrote>>
  /\ UNCHANGED <<batchVars, detectVars, normVars, csvVars, first, pureVars>>

\* urls = await readUrlsFromCsv(inputFile): the stream delivers a row
ReadInput == mainPc = "reading" /\ ReadRow

\* the stream emits 'error': readUrlsFromCsv rejects and main's catch
\* exits
ReadError ==
  /\ mainPc = "reading"
  /\ Exit(1)
  /\ UNCHANGED <<inputFile, browser, scheduled, wrote>>
  /\ UNCHANGED <<batchVars, detectVars, normVars, csvVars, first, pureVars>>

\* mutant: the run goes on with an empty list of URLs
EndOfFile_NoEmptyCheck ==
  /\ mainPc = "reading"
  /\ nread = Len(rows)
  /\ mainPc' = "launch"
  /\ UNCHANGED exitCode
  /\ UNCHANGED <<inputFile, browser, scheduled, wrote>>
  /\ UNCHANGED <<batchVars, detectVars, normVars, csvVars, first, pureVars>>

\* the stream emits 'end' and readUrlsFromCsv resolves;
\* if (urls.length === 0) { ...; process.exit(1) }
EndOfFile ==
  /\ mainPc = "reading"
  /\ nread = Len(rows)
  /\ IF Len(urls) = 0
       THEN Exit(1)
       ELSE mainPc' = "launch" /\ UNCHANGED exitCode
  /\ UNCHANGED <<inputFile, browser, scheduled, wrote>>
  /\ UNCHANGED <<batchVars, detectVars, normVars, csvVars, first, pureVars>>

\* mutant: a failed launch is caught and the run goes on
Launch_Swallows ==
  /\ mainPc = "launch"
  /\ \/ browser' = "open"
     \/ browser' = "failed"
  /\ mainPc' = "schedule"
  /\ UNCHANGED <<inputFile, scheduled, wrote, exitCode>>
  /\ UNCHANGED <<batchVars, detectVars, normVars, csvVars, first, pureVars>>

\* const browser = await chromium.launch({ headless: true }): a browser, or
\* a rejection that leaves main() and reaches main().catch, which exits
Launch ==
  /\ mainPc = "launch"
  /\ \/ /\ browser' = "open"
        /\ mainPc' = "schedule"
        /\ UNCHANGED exitCode
     \/ /\ browser' = "failed"
        /\ Exit(1)
  /\ UNCHANGED <<inputFile, scheduled, wrote>>
  /\ UNCHANGED <<batchVars, detectVars, normVars, csvVars, first, pureVars>>

\* const promises = urls.map((url, index) => limit(...))
Schedule ==
  /\ mainPc = "schedule"
  /\ scheduled' = Len(urls)
  /\ mainPc' = "awaiting"
  /\ UNCHANGED <<inputFile, browser, wrote, exitCode>>
  /\ UNCHANGED <<batchVars, detectVars, normVars, csvVars, first, pureVars>>

\* await Promise.all(promises)
AwaitAll ==
  /\ mainPc = "awaiting"
  /\ mainPc' = "closing"
  /\ UNCHANGED <<inputFile, browser, scheduled, wrote, exitCode>>
  /\ UNCHANGED <<batchVars, detectVars, normVars, csvVars, first, pureVars>>

\* await browser.close()
CloseSession ==
  /\ mainPc = "closing"
  /\ browser' = "closed"
  /\ mainPc' = "writing"
  /\ UNCHANGED <<inputFile, scheduled, wrote, exitCode>>
  /\ UNCHANGED <<batchVars, detectVars, normVars, csvVars, first, pureVars>>

\* await writeResultsToCsv(results, outputFile); main() returns and the
\* process ends with code 0
WriteOutput ==
  /\ mainPc = "writing"
  /\ wrote' = TRUE
  /\ mainPc' = "finished"
  /\ exitCode' = 0
  /\ UNCHANGED <<inputFile, browser, scheduled>>
  /\ UNCHANGED <<batchVars, detectVars, normVars, csvVars, first, pureVars>>

MainNext ==
  \/ CheckFile
  \/ ReadInput
  \/ ReadError
  \/ EndOfFile
  \/ Launch
  \/ Schedule
  \/ AwaitAll
  \/ CloseSession
  \/ WriteOutput

MainSpec == MainInit /\ [][MainNext]_vars

TypeOK ==
  /\ pc \in [Urls -> {"queued", "backoff", "newPage", "goto", "loaded",
                      "detected", "done", "rejected"}]
  /\ attempt \in [Urls -> 0..(MaxRetries + 1)]
  /\ \A i \in Urls : result[i] = NoResult \/ result[i].status \in Statuses
  /\ phase \in {"running", "closed", "written", "failed"}

\* ------------------------------------------------------------ properties
\* the CheckResult recorded for URL i
ResultOf(i) ==
  CHOOSE r \in {results[k] : k \in 1..Len(results)} : r.domain = i

\* the loop iterations a settled check has run
AttemptsMade(i) ==
  IF cause[i] = "fallback" THEN attempt[i] ELSE attempt[i] + 1

\* C1: a URL whose every attempt fails with a retryable navigation error is
\* attempted exactly maxRetries+1 times, settles to 5xx and has waited
\* 1s + 2s + 4s of backoff in total.
C1_RetryBudget ==
  \A i \in Urls :
    (pc[i] = "done" /\ every[i] = "nav") =>
      /\ AttemptsMade(i) = MaxRetries + 1
      /\ ResultOf(i).status = "5xx"
      /\ slept[i] = 1000 + 2000 + 4000

C1_Witness ==
  \E i \in Urls :
    /\ pc[i] = "done" /\ every[i] = "nav" /\ cause[i] = "goto"
    /\ slept[i] = 7000 /\ ResultOf(i).error = NetErr

\* C2: at every moment the number of checks started and not yet settled is
\* at most the configured concurrency.
C2_BoundedInFlight == Cardinality(InFlight) <= Concurrency

C2_Witness ==
  /\ Cardinality(InFlight) = Concurrency
  /\ \E i \in Urls : pc[i] = "queued"
  /\ \E i \in Urls : pc[i] = "backoff" /\ attempt[i] = MaxRetries

\* C3: when the batch completes, results holds exactly one CheckResult per
\* URL, whatever the statuses the checks ended in.
C3_OneResultPerUrl ==
  phase \in {"closed", "written"} =>
    /\ Len(results) = NumUrls
    /\ \A i \in Urls :
         Cardinality({k \in 1..Len(results) : results[k].domain = i}) = 1

C3_Witness ==
  /\ phase = "written"
  /\ Len(results) = NumUrls
  /\ results[1].status \in {"5xx", "Other"}
  /\ results[Len(results)].status = "ok"

\* C4: checkUrl never rejects: whatever the attempts meet, the task settles
\* with a CheckResult and the batch is not aborted.
C4_NeverRejects ==
  /\ phase # "failed"
  /\ \A i \in Urls :
       /\ pc[i] # "rejected"
       /\ pc[i] = "done" => \E k \in 1..Len(results) : results[k].domain = i

C4_Witness ==
  \E i, j \in Urls :
    /\ pc[i] = "done" /\ cause[i] = "close"
    /\ pc[j] = "done" /\ cause[j] = "newPage"

\* C5: a check whose navigation fails on the last attempt settles to 5xx,
\* never to Other, and Other comes only from a fault of the analysis of a
\* loaded document.
C5_NavFailureIs5xx ==
  \A i \in Urls :
    pc[i] = "done" =>
      /\ cause[i] = "goto" => ResultOf(i).status = "5xx"
      /\ ResultOf(i).status = "Other" => cause[i] = "verdict"

\* the content tests of detectStatus ran on the document of the attempt
Inspected(i) ==
  /\ pc[i] = "detected"
  /\ ~(response[i] # NoResponse /\ response[i] >= 400 /\ response[i] < 600)

\* C6: a fault raised while inspecting a loaded document settles the check
\* to Other on that attempt.
C6_InspectionFaultIsOther ==
  \A i \in Urls :
    (Inspected(i) /\ doc[i].throws # "none") =>
      /\ result[i].status = "Other"
      /\ Verdict(i).status = "Other"

\* C7: every check terminates in a settled state that carries exactly one
\* of the six statuses.
C7_Terminates ==
  <>(\A i \in Urls :
       /\ pc[i] = "done"
       /\ Cardinality({k \in 1..Len(results) :
             results[k].domain = i /\ results[k].status \in Statuses}) = 1)

C7_Witness ==
  /\ \A i \in Urls : pc[i] = "done" /\ ResultOf(i).status \in Statuses
  /\ \E i \in Urls : attempt[i] = MaxRetries
  /\ \E i \in Urls : attempt[i] = 0

\* C8: for every status code in 500..599 the classification is 5xx whatever
\* the content of the page.
C8_5xxRegardlessOfContent ==
  \A i \in Urls :
    (pc[i] = "detected" /\ Is5xx(response[i])) =>
      /\ result[i].status = "5xx"
      /\ Verdict(i).status = "5xx"

C8_Witness ==
  \E i \in Urls :
    /\ pc[i] = "detected" /\ response[i] = 599
    /\ "domain for sale" \in doc[i].phrases
    /\ result[i].status = "5xx"

\* C9: a URL that answers 5xx on every attempt is attempted exactly
\* maxRetries+1 times and settles to 5xx with a note that holds the HTTP
\* code and the attempt count.
C9_5xxOnEveryAttempt ==
  \A i \in Urls :
    (pc[i] = "done" /\ every[i] = "5xx") =>
      /\ AttemptsMade(i) = MaxRetries + 1
      /\ ResultOf(i).status = "5xx"
      /\ \E code \in HttpCodes :
           /\ Is5xx(code)
           /\ Includes(ResultOf(i).notes, <<ToText(code)>>)
      /\ Includes(ResultOf(i).notes, <<ToText(MaxRetries + 1)>>)

\* C10: a 404 response settles the check on that attempt, without retry, to
\* status 404 with note "HTTP 404", whatever the content of the page.
C10_404SettlesAtOnce ==
  [][\A i \in Urls :
       (pc[i] = "detected" /\ response[i] = 404 /\ pc'[i] # "detected") =>
         /\ pc'[i] = "done"
         /\ attempt'[i] = attempt[i]
         /\ results' = Append(results,
              CheckResult(i, "404", <<"HTTP", "404">>, NoError))]_vars

\* C11: a 403 response is classified ok, with a note on a possible bot
\* block, when the page has substantial content, and Broken when not.
C11_403BySubstance ==
  \A i \in Urls :
    (pc[i] = "detected" /\ response[i] = 403) =>
      IF pageHasSubstantialContent(doc[i])
        THEN /\ result[i].status = "ok"
             /\ Includes(result[i].notes, <<"bot", "block)">>)
        ELSE result[i].status = "Broken"

\* C12: a 4xx response other than 403 and 404 ends the check in the
\* attempt that received it, as Broken with the HTTP code in the note,
\* whatever the document.
C12_Other4xxSettlesAtOnce ==
  [][\A i \in Urls :
       (/\ pc[i] = "detected"
        /\ response[i] >= 400 /\ response[i] < 500
        /\ response[i] \notin {403, 404}
        /\ pc'[i] # "detected") =>
         /\ pc'[i] = "done"
         /\ attempt'[i] = attempt[i]
         /\ results' = Append(results,
              CheckResult(i, "Broken", <<"HTTP", ToText(response[i])>>,
                          NoError))]_vars

\* the page tests read the phrase in the document (title or body text)
BodyContains(d, phrase) == d.throws # "textContent" /\ phrase \in d.phrases

\* C13 as stated: a document that contains "domain for sale" and whose
\* status is neither 403 nor 404 is classified Parked, also when it
\* matches a Broken phrase.
C13_ParkedUnlessDeferred ==
  (/\ dpc = "returned"
   /\ BodyContains(pageDoc, "domain for sale")
   /\ httpStatus \notin {403, 404}) =>
     outcome.status = "Parked"

\* C13, amended: a document that contains "domain for sale", reached with
\* no response or with a status outside 400..599, is classified Parked,
\* also when it matches a Broken phrase, unless an oracle answered Normal.
C13_ParkedBeforeBroken ==
  (/\ dpc = "returned"
   /\ BodyContains(pageDoc, "domain for sale")
   /\ (httpStatus = NoResponse \/ httpStatus < 400 \/ httpStatus >= 600)
   /\ llmVerdict # "normal") =>
     outcome.status = "Parked"

C13_Witness ==
  /\ dpc = "returned"
  /\ httpStatus = 200
  /\ BodyContains(pageDoc, "domain for sale")
  /\ BodyContains(pageDoc, "page not found")
  /\ isBrokenPage(pageDoc)
  /\ outcome.status = "Parked"

\* a page read without fault, with no parked or hosting phrase, fewer than
\* 10 DOM elements and under 200 characters of body text
Sparse(d) ==
  /\ d.throws = "none"
  /\ d.phrases \cap (parkedIndicators \cup hostingProviders
                     \cup parkedIndicatorsV2 \cup hostingProvidersV2) = {}
  /\ d.elements < 10
  /\ d.bodyLen < 200

\* what isParkedPage of status-detector.ts holds to be a blank page
Blank(d) == d.bodyLen < 100 \/ d.visibleLen < 50

Loads(status) == status = NoResponse \/ status < 400 \/ status >= 600

OracleAnswersNormal ==
  /\ getPageSummaryForLLM(pageDoc) # <<>>
  /\ FetchSent(llmEnv)
  /\ llmEnv.latency < LlmTimeoutMs
  /\ llmEnv.reply = "NORMAL"

\* the call reached the content tests and the parked test fired
ParkedTestFired ==
  /\ rev = 2
  /\ HttpRuleV2(httpStatus, pageDoc) = NoVerdict
  /\ isParkedPageV2(pageDoc)

C17_NoKeyNoRequest ==
  (rev = 2 /\ (~llmEnv.apiKey \/ llmEnv.useLlmParked = "0")) =>
    /\ fetches = 0
    /\ llmVerdict \in {"none", "skip"}
    /\ (dpc = "returned" /\ ParkedTestFired) => llmVerdict = "skip"

C17_Witness ==
  /\ dpc = "returned" /\ ParkedTestFired
  /\ llmEnv.apiKey /\ llmEnv.useLlmParked = "0"
  /\ llmEnv.reply = "NORMAL"
  /\ getPageSummaryForLLM(pageDoc) # <<>>
  /\ llmVerdict = "skip"
  /\ fetches = 0
  /\ outcome.status = "Parked"

\* C18: a call answers Parked only for a document on which the keyword
\* test fired, and the oracle is asked only after that test has fired.
C18_OracleNeverSoleBasis ==
  rev = 2 =>
    /\ outcome.status = "Parked" => isParkedPageV2(pageDoc)
    /\ (dpc = "oracle" \/ llmVerdict # "none" \/ fetches > 0) =>
         ParkedTestFired

C18_Witness ==
  /\ dpc = "returned" /\ rev = 2
  /\ fetches = 1
  /\ llmVerdict = "parked"
  /\ isParkedPageV2(pageDoc)
  /\ outcome = StatusResult("Parked",
                             <<"Parked", "domain", "(LLM", "confirmed)">>)

\* the argument holds something besides blanks
NonEmpty(domain) == Trim(domain) # <<>>

\* str.toLowerCase().startsWith(prefix)
StartsWithAnyCase(str, prefix) ==
  /\ Len(str) >= Len(prefix)
  /\ \A k \in 1..Len(prefix) : Lower(str[k]) = prefix[k]

\* C19 as stated: for a non-empty argument normalizeUrl returns a string
\* that starts with http:// or https://; for an empty or blank argument
\* it throws the empty-input error.
C19_SchemePrefix ==
  normalized.kind # "idle" =>
    IF NonEmpty(raw)
      THEN /\ normalized.kind = "returns"
           /\ \/ StartsWith(normalized.value, Chars("http://"))
              \/ StartsWith(normalized.value, Chars("https://"))
      ELSE normalized = Throws(<<"Empty domain">>)

\* C19, amended: the returned string starts with http:// or https:// when
\* letter case is set aside; for an empty or blank argument normalizeUrl
\* throws the empty-input error.
C19_SchemePrefixAnyCase ==
  normalized.kind # "idle" =>
    IF NonEmpty(raw)
      THEN /\ normalized.kind = "returns"
           /\ \/ StartsWithAnyCase(normalized.value, Chars("http://"))
              \/ StartsWithAnyCase(normalized.value, Chars("https://"))
      ELSE normalized = Throws(<<"Empty domain">>)

C19_Witness ==
  /\ raw = Chars("HTTP://") \o <<"example.com">>
  /\ normalized = Returns(raw)

\* the rows delivered so far whose cell is not blank
Delivered == {k \in 1..nread : Trim(rows[k]) # <<>>}

\* the first delivered row whose cell normalizes to u
FirstRowOf(u) ==
  CHOOSE k \in Delivered :
    /\ normalizeUrl(rows[k]).value = u
    /\ \A j \in Delivered : normalizeUrl(rows[j]).value = u => k <= j

\* the inputs example.com, https://example.com, EXAMPLE.com/
ExampleRows ==
  << <<"example.com">>, Chars("https://") \o <<"example.com">>,
     <<"EXAMPLE.com", "/">> >>

\* C20: the list holds each normalized URL of the rows read exactly once,
\* in the order of first appearance; the three example inputs give fewer
\* than three entries.
C20_UniqueInFirstOrder ==
  /\ \A a, b \in 1..Len(urls) : a # b => urls[a] # urls[b]
  /\ {urls[a] : a \in 1..Len(urls)} =
       {normalizeUrl(rows[k]).value : k \in Delivered}
  /\ \A a, b \in 1..Len(urls) :
       a < b => FirstRowOf(urls[a]) < FirstRowOf(urls[b])
  /\ (rows = ExampleRows /\ nread = Len(rows)) => Len(urls) < 3

C20_Witness ==
  /\ rows = ExampleRows
  /\ nread = Len(rows)
  /\ urls = << Chars("https://") \o <<"example.com">>,
               Chars("https://") \o <<"EXAMPLE.com">> >>

\* the pages opened for URL i that the browser still holds open
OpenPagesOf(i) == {pg \in openPages : pg[1] = i}

SessionClosed == phase \in {"closed", "written"}

\* C22: the browser is closed, and the output written, only when every
\* check has settled and delivered its result, and once the browser is
\* closed no check takes a step any more
C22_CloseAndWriteAfterAllSettled ==
  [][/\ SessionClosed' =>
          /\ \A i \in Urls : pc'[i] = "done"
          /\ Len(results') = NumUrls
     /\ output' # <<>> => SessionClosed' /\ Len(output') = NumUrls
     /\ SessionClosed => UNCHANGED <<pc, attempt, page, results>>]_vars

\* the file is written after a batch in which a check was retried
C22_Witness ==
  /\ phase = "written"
  /\ Len(output) = NumUrls
  /\ \E i \in Urls : attempt[i] >= 1

\* 1s, 2s, 4s: the delays before attempts 1, 2 and 3, in milliseconds
DelayBefore == <<1000, 2000, 4000>>

\* C30: attempt n >= 1 of a URL starts after a delay of exactly 2^(n-1)
\* seconds; nothing is slept before attempt 0, at any other step of the
\* check, or once the check has settled
C30_DelayIsPowerOfTwo ==
  [][\A i \in Urls :
       /\ attempt'[i] = 0 => slept'[i] = 0
       /\ pc[i] = "backoff" /\ pc'[i] # "backoff" =>
            /\ attempt[i] \in 1..MaxRetries
            /\ attempt'[i] = attempt[i]
            /\ pc'[i] = "newPage"
            /\ slept'[i] = slept[i] + DelayBefore[attempt[i]]
       /\ pc[i] # "backoff" => slept'[i] = slept[i]
       /\ pc'[i] = "newPage" /\ pc[i] # "newPage" /\ attempt'[i] >= 1 =>
            pc[i] = "backoff"]_vars

\* the last attempt of the budget runs after 1s + 2s + 4s of delay
C30_Witness ==
  \E i \in Urls :
    attempt[i] = MaxRetries /\ pc[i] = "goto" /\ slept[i] = 7000

\* C28: every row of the output carries, as its Timestamp, the time at which
\* the check of the row's URL settled
C28_TimestampIsCheckTime ==
  \A k \in 1..Len(output) :
    output[k].Timestamp = settledAt[output[k].Domain]

\* the next step of the check of URL i, once p-limit has started it
Step(i) == Backoff(i) \/ NewPage(i) \/ Goto(i) \/ Detect(i) \/ Close(i)

\* the checks that hold a slot of the pool: started, not yet returned
Busy == {k \in Urls : pc[k] \in {"backoff", "newPage", "goto", "loaded",
                                  "detected"}}

\* the URL p-limit starts next: the first one still queued
NextQueued(j) == pc[j] = "queued" /\ \A k \in Urls : k < j => pc[k] # "queued"

C25_WorkConserving ==
  \A j \in Urls :
    (NextQueued(j) /\ Cardinality(Busy) < Concurrency) ~> (pc[j] # "queued")

\* a URL runs in the slot that an earlier check, settled after its last
\* retry, has freed
C25_Witness ==
  \E i, j \in Urls :
    /\ i < j
    /\ pc[i] = "done" /\ attempt[i] = MaxRetries
    /\ Len(results) = 1
    /\ j \in Busy

\* the variables of one call of checkUrl, and its history
Local(i) ==
  <<pc[i], attempt[i], lastError[i], response[i], doc[i], result[i],
    page[i], slept[i], every[i], cause[i], settledAt[i]>>

\* the results the running attempt of URL i can end in, read from nothing
\* but the variables of that check: the verdict on its response and
\* document, or the verdict of the catch block on the error it meets
OwnResults(i) ==
  {Verdict(i)} \cup {CatchResult(i, msg) : msg \in GotoErrors \cup PageErrors}

C23_LaunchFailureAborts ==
  [][/\ browser' = "failed" =>
          /\ mainPc' = "exited"
          /\ exitCode' = 1
          /\ scheduled' = 0
          /\ wrote' = FALSE
     /\ mainPc = "exited" => UNCHANGED mainVars]_vars

\* the launch fails after the input gave two URLs
C23_Witness ==
  /\ browser = "failed"
  /\ inputFile = "present"
  /\ Len(urls) = 2
  /\ exitCode = 1

\* the reading of the input file is over
InputRead == mainPc \notin {"start", "reading"}

\* C29: when the input file is missing, or when it has been read and gave
\* no valid URL, the process has exited with code 1, and no browser was
\* launched, no check scheduled and no output written
C29_NoInputExitsBeforeLaunch ==
  (inputFile = "missing" \/ (InputRead /\ urls = <<>>)) =>
    /\ mainPc = "exited"
    /\ exitCode = 1
    /\ browser = "none"
    /\ scheduled = 0
    /\ wrote = FALSE

\* a file of three rows, none of which holds a URL, has been read to its
\* end and the process has exited
C29_Witness ==
  /\ inputFile = "present"
  /\ Len(rows) = MaxRows /\ nread = MaxRows
  /\ urls = <<>>
  /\ mainPc = "exited" /\ exitCode = 1

\* the second call of detectStatus on the page has returned
SecondReturned == dpc = "returned" /\ first # NoFirst

C31_Non5xxSettlesOnThatAttempt ==
  [][\A i \in Urls :
       (/\ pc[i] = "detected"
        /\ response[i] # NoResponse /\ ~Is5xx(response[i])
        /\ pc'[i] # "detected") =>
         /\ pc'[i] = "done"
         /\ attempt'[i] = attempt[i]
         /\ results' = Append(results,
              CheckResult(i, detectStatus(response[i], doc[i]).status,
                          detectStatus(response[i], doc[i]).notes,
                          NoError))]_vars

\* the body of the page holds the phrase
Says(phrase) == phrase \in pageDoc.phrases

\* C32 as stated: a page that can be read passes the substantial-content
\* test exactly when its body has at least 400 characters, it is not a
\* "forbidden" or "access denied" page under 800 characters, and it has at
\* least 15 elements
C32_SubstantialContent ==
  (substantial # "unset" /\ pageDoc.throws = "none") =>
    (substantial = "true" <=>
       /\ pageDoc.bodyLen >= 400
       /\ ~((Says("forbidden") \/ Says("access denied"))
             /\ pageDoc.bodyLen < 800)
       /\ pageDoc.elements >= 15)

\* C32 amended: as above, but a "forbidden" page under 800 characters that
\* also says "stack overflow" is not turned away, and a page that cannot be
\* read fails the test
C32_SubstantialUnlessStackOverflow ==
  substantial # "unset" =>
    (substantial = "true" <=>
       /\ pageDoc.throws = "none"
       /\ pageDoc.bodyLen >= 400
       /\ ~(Says("access denied") /\ pageDoc.bodyLen < 800)
       /\ ~(Says("forbidden") /\ ~Says("stack overflow")
             /\ pageDoc.bodyLen < 800)
       /\ pageDoc.elements >= 15)

\* a page of 799 characters and 15 elements that says "forbidden" and
\* "stack overflow" passes the test
C32_Witness ==
  /\ substantial = "true"
  /\ pageDoc.bodyLen = 799 /\ pageDoc.elements = 15
  /\ Says("forbidden") /\ Says("stack overflow")

\* C33: on a 404 response detectStatus goes on from the rules on the HTTP
\* status to the parked test (and from there to the broken test) before it
\* returns 404
C33_404RunsContentTests ==
  [][(rev = 2 /\ httpStatus = 404 /\ dpc = "start") =>
       dpc' = "parkedTest"]_vars

\* the status the content tests give a document: Other when reading it
\* raises a fault, else Parked, Broken, or ok when neither test fires
ContentVerdict(d) ==
  IF d.throws # "none" THEN "Other"
  ELSE IF isParkedPage(d) THEN "Parked"
  ELSE IF isBrokenPage(d) THEN "Broken"
  ELSE "ok"

\* C34: an attempt whose navigation gave no response object ends the check
\* without retry, with the status the content tests give the loaded
\* document, and with Other when a fault is raised while it is classified
C34_NoResponseSettlesByContent ==
  [][\A i \in Urls :
       (pc[i] = "detected" /\ response[i] = NoResponse
        /\ pc'[i] # "detected") =>
         /\ pc'[i] = "done"
         /\ attempt'[i] = attempt[i]
         /\ Len(results') = Len(results) + 1
         /\ results'[Len(results')].domain = i
         /\ results'[Len(results')].status = ContentVerdict(doc[i])]_vars

\* the status is a success code, 200..299
Is2xx(status) == status # NoResponse /\ status >= 200 /\ status < 300

\* the parked test of the detector that runs
ParkedFires ==
  IF rev = 1 THEN isParkedPage(pageDoc) ELSE isParkedPageV2(pageDoc)

\* C35 as stated: detectStatus answers ok only for a status in 200..299, a
\* 403 with substantial content, or no response object
C35_OkOnlyFor2xx403OrNoResponse ==
  (dpc = "returned" /\ outcome.status = "ok") =>
    \/ httpStatus = NoResponse
    \/ Is2xx(httpStatus)
    \/ httpStatus = 403 /\ pageHasSubstantialContent(pageDoc)

\* C35 amended: detectStatus answers ok only for a 403 with substantial
\* content (README listing) or for a page that loaded, with or without a
\* response, under a status outside 400..599; the note is 'Website loads
\* fine' for 200..299 and 'Website appears to load' otherwise, and a page
\* under 1xx, 3xx or a status outside 100..599 on which neither the parked
\* nor the broken test fires is reported ok
C35_OkForEveryStatusThatLoads ==
  dpc = "returned" =>
    /\ outcome.status = "ok" =>
         \/ /\ rev = 2 /\ httpStatus = 403
            /\ pageHasSubstantialContent(pageDoc)
         \/ /\ Loads(httpStatus)
            /\ outcome.notes = IF Is2xx(httpStatus)
                                 THEN <<"Website", "loads", "fine">>
                                 ELSE <<"Website", "appears", "to", "load">>
    /\ (Loads(httpStatus) /\ ~ParkedFires /\ ~isBrokenPage(pageDoc)) =>
         outcome.status = "ok"

\* a 301 response is reported ok by the README listing
C35_Witness ==
  /\ dpc = "returned" /\ rev = 2
  /\ httpStatus = 301
  /\ outcome = StatusResult("ok", <<"Website", "appears", "to", "load">>)

\* C36: a further attempt of a URL is started only after a 5xx response or
\* a thrown error whose message matches a retryable pattern; any other
\* thrown error settles the check in the attempt in which it is thrown
C36_RetryOnly5xxOrRetryable ==
  [][\A i \in Urls :
       attempt'[i] > attempt[i] =>
         \/ Is5xx(response'[i]) /\ response'[i] # NoResponse
         \/ lastError'[i] # NoError /\ lastError'[i][1] = "HTTP"
         \/ lastError'[i] # NoError /\ IsRetryable(lastError'[i])]_vars

C38_NormalizeIdempotent ==
  renormalized.kind # "idle" => renormalized = normalized

\* C39: the iteration with attempt = maxRetries always returns: it starts no
\* backoff and no further iteration, the loop variable never exceeds
\* maxRetries, and no check settles by the return that follows the loop
C39_FallbackUnreachable ==
  [][\A i \in Urls :
       /\ attempt'[i] <= MaxRetries
       /\ cause'[i] # "fallback"
       /\ attempt[i] = MaxRetries => attempt'[i] = MaxRetries
       /\ attempt[i] = MaxRetries /\ pc[i] # "backoff" => pc'[i] # "backoff"
       /\ pc'[i] = "done" /\ pc[i] # "done" =>
            results'[Len(results')] \in OwnResults(i)]_vars

\* the last iteration returns from its catch block, once after a failed
\* navigation and once after a failed close
C39_Witness ==
  \E i, j \in Urls :
    /\ pc[i] = "done" /\ attempt[i] = MaxRetries /\ cause[i] = "goto"
    /\ pc[j] = "done" /\ attempt[j] = MaxRetries /\ cause[j] = "close"


====
